---- MODULE Spec2Model ----
(***************************************************************************)
(* Model of the concurrent programs of the golang-essentials repository:   *)
(*   - 22_mutex/mutex.go        post.incView under sync.Mutex + WaitGroup  *)
(*   - 22_mutex/mutex.md        the documented `increment` counter example *)
(*   - 20_goRoutines/goRoutines.go   task / main with sync.WaitGroup       *)
(*   - unnamed/part_007         range over a channel (producer / main)     *)
(*   - 1_hello_world/hello_world.md  emailSender and its driver in main    *)
(*   - 21_channels/channels.md  the worker pool (worker / main)            *)
(*   - 21_channels/channels.md  the channel operations themselves, called  *)
(*                              by goroutines in any order                 *)
(*   - 1_hello_world/hello_world.md  main: the select loop over chanInt    *)
(*                              and chanStr                                *)
(*   - 8_arrays/arrays.go       (notes) the WaitGroup operations, called   *)
(*                              by goroutines in any order                 *)
(*   - 22_mutex/mutex.md        the sync.Mutex operations, called by       *)
(*                              goroutines in any order                    *)
(*   - 22_mutex/mutex.md        the sync.RWMutex operations, called by     *)
(*                              reading and writing goroutines             *)
(*   - unnamed/part_005         the GoBank menu loop over balance.txt      *)
(* Each program has its own variables and its own specification; the       *)
(* variables of the other programs stay at their initial values.           *)
(***************************************************************************)
EXTENDS Integers, Sequences, FiniteSets, TLC

\* ------------------------------------------------------------------ bounds
\* goroutines started by main of mutex.go (100 in the source, 1000 in the doc)
NPosts == 3
\* goroutines started by main of goRoutines.go (11 in the source: i = 0..10)
NTasks == 4
\* values sent by the producer of part_007 (3 in the source: i = 1..3)
NVals == 3
\* e-mails sent by main to emailSender (10 in the source: i = 0..9)
NEmails == 4
\* largest capacity of the channel ranged over (part_007: make(chan int), 0;
\* channels.md: make(chan int, 2))
MaxCap == 2

\* jobs fed by main of the worker pool (5 in the source: j = 1..5)
NJobs == 5
\* goroutines operating on the channel of channels.md
NClients == 2
\* channel operations started on the channel of channels.md
MaxOps == 4
\* distinct values sent on the channel of channels.md
NWgClients == 2
MaxWgOps == 4
MaxDelta == 2
NLkClients == 2
MaxLkOps == 4
NRwClients == 5
MaxBankOps == 3
MaxAmtK == 3
MaxStartK == 2
NSendVals == 2

\* ------------------------------------------------------- program constants
\* jobs := make(chan int, 5)
JobsCap == 5
\* results := make(chan int, 5)
ResultsCap == 5
\* for w := 1; w <= 3; w++ { go worker(w, jobs, results) }
NWorkers == 3
\* emailChan := make(chan string, 100)
EmailCap == 100

VARIABLES
    \* ---- mutex.go / mutex.md
    variant,    \* "post": mutex.go incView; "counter": mutex.md increment
    views,      \* post.views (counter in the doc example)
    mu,         \* sync.Mutex state: TRUE = locked
    wg,         \* sync.WaitGroup counter of main
    pcMain,     \* position of main
    i,          \* loop variable of main
    pcInc,      \* position of each incView goroutine
    tmp,        \* value of p.views loaded by each goroutine for p.views++
    printed,    \* what fmt.Println(myPost.views) printed, -1 before
    fault,      \* runtime fault raised by a primitive, "none" if none
    \* ---- goRoutines.go
    tWg,        \* sync.WaitGroup counter of main
    tPcMain,    \* position of main
    tI,         \* loop variable of main
    pcTask,     \* position of each task goroutine
    nDone,      \* number of w.Done() calls executed so far
    out,        \* ids printed by "Doing Task:", in order
    \* ---- part_007 (range over channel) and hello_world.md (emailSender)
    rProg,      \* "range": part_007; "email": emailSender and its driver
    ch,         \* the channel ranged over: ch (part_007), emailChan
    done,       \* done := make(chan bool): TRUE once emailSender's send completed
    pcProd,     \* position of the sender: go func() (part_007), main (driver)
    pI,         \* loop variable i of the sender
    pcCons,     \* position of the range loop: main (part_007), emailSender
    val,        \* loop variable of the range loop (val, email)
    sent,       \* values whose send on the channel has completed, in order
    rcvd,       \* values the range loop has received, in order
    rOut,       \* what the range loop printed, in order
    \* ---- channels.md worker pool
    jobs,       \* jobs := make(chan int, 5)
    results,    \* results := make(chan int, 5)
    pcPool,     \* position of main
    pN,         \* loop variable of main's current loop (w, j, r)
    pcW,        \* position of each worker
    wJ,         \* loop variable j of each worker
    got,        \* values main received from results (and printed), in order
    produced,   \* number of sends on results that have completed
    processed,  \* per job j: how many "Worker id processing job j" were printed
    \* ---- channels.md channel operations
    hCh,        \* the channel
    hPc,        \* the operation each goroutine is in: "idle" when in none
    hVal,       \* the value each goroutine is sending
    hRes,       \* what each goroutine's last completed operation returned
    ops,        \* number of operations started so far
    atClose,    \* the values buffered when close(ch) succeeded
    afterClose, \* the values received since close(ch) succeeded, in order
    \* ---- hello_world.md select loop
    hasDefault, \* TRUE: the select has its default branch (commented in the source)
    pcSel,      \* position of main
    sI,         \* loop variable i of main
    pcSnd,      \* position of the goroutine sending on each channel
    gotInt,     \* values of chanIntVal received from chanInt, in order
    gotStr,     \* values of chanStrVal received from chanStr, in order
    selOrder,   \* the channel each completed select received from, in order
    selBoth,    \* for each completed receive: were both cases ready when it ran
    nDefault,   \* number of selects that ran the default branch
    \* ---- WaitGroup operations
    wgCnt,      \* the WaitGroup counter
    wgPc,       \* position of each goroutine: idle, in Wait(), or panicked
    wgOps,      \* number of calls made so far
    wgLast,     \* the last Add/Done call: its delta, the counter before it, did it panic
    wgEntered,  \* the goroutines that have entered a Wait()
    wgRet,      \* for each goroutine: a Wait() of it has returned
    wgLate,     \* for each goroutine: registrations it added after another
                \* goroutine entered Wait() and has not yet matched with Done()
    \* ---- sync.Mutex operations
    lkMu,       \* the mutex: TRUE when locked
    lkPc,       \* position of each goroutine: idle, in Lock(), or panicked
    lkHolder,   \* the goroutine whose Lock() locked the mutex, NoOne when unlocked
    lkOps,      \* number of calls made so far
    lkLast,     \* the last Unlock() call: who called, the mutex and its holder
                \* before the call, did it panic, the mutex after the call
    \* ---- sync.RWMutex operations
    rwW,        \* the RWMutex is locked for writing
    rwR,        \* number of readers holding the RWMutex
    rwPc,       \* position of each goroutine
    \* ---- GoBank
    bFile,      \* what balance.txt holds
    bPc,        \* position of main: start, menu, exit or panic
    accBalance, \* the balance in memory
    bStart,     \* the balance main started with
    bLast,      \* the last menu operation: its amount, the balance and the file before it
    bN          \* number of menu operations so far

mutexVars == <<variant, views, mu, wg, pcMain, i, pcInc, tmp, printed, fault>>
taskVars == <<tWg, tPcMain, tI, pcTask, nDone, out>>
rangeVars == <<rProg, ch, done, pcProd, pI, pcCons, val, sent, rcvd, rOut>>
poolVars == <<jobs, results, pcPool, pN, pcW, wJ, got, produced, processed>>
chanVars == <<hCh, hPc, hVal, hRes, ops, atClose, afterClose>>
selVars == <<hasDefault, pcSel, sI, pcSnd, gotInt, gotStr, selOrder, selBoth, nDefault>>
wgVars == <<wgCnt, wgPc, wgOps, wgLast, wgEntered, wgRet, wgLate>>
lkVars == <<lkMu, lkPc, lkHolder, lkOps, lkLast>>
rwVars == <<rwW, rwR, rwPc>>
bankVars == <<bFile, bPc, accBalance, bStart, bLast, bN>>

\* what each program leaves alone: the variables of the other programs
progVars == <<variant, views, mu, wg, pcMain, i, pcInc, tmp, printed>>
notMutexVars == <<taskVars, rangeVars, poolVars, chanVars, selVars, wgVars, lkVars, rwVars, bankVars>>
notTaskVars == <<progVars, rangeVars, poolVars, chanVars, selVars, wgVars, lkVars, rwVars, bankVars>>
notRangeVars == <<progVars, taskVars, poolVars, chanVars, selVars, wgVars, lkVars, rwVars, bankVars>>
notPoolVars == <<progVars, taskVars, rangeVars, chanVars, selVars, wgVars, lkVars, rwVars, bankVars>>
notChanVars == <<progVars, fault, taskVars, rangeVars, poolVars, selVars, wgVars, lkVars, rwVars, bankVars>>
notSelVars == <<progVars, fault, taskVars, rangeVars, poolVars, chanVars, wgVars, lkVars, rwVars, bankVars>>
notWgVars == <<progVars, fault, taskVars, rangeVars, poolVars, chanVars, selVars, lkVars, rwVars, bankVars>>
notLkVars == <<progVars, fault, taskVars, rangeVars, poolVars, chanVars, selVars, wgVars, rwVars, bankVars>>
notRwVars == <<progVars, fault, taskVars, rangeVars, poolVars, chanVars, selVars, wgVars, lkVars, bankVars>>
notBankVars == <<progVars, fault, taskVars, rangeVars, poolVars, chanVars, selVars, wgVars, lkVars, rwVars>>

\* ------------------------------------------------------------ sync.Mutex
\* Lock() returns only when the mutex is unlocked
LockNeverBlocks(m) == TRUE
LockReady(m) == ~m

\* Unlock() of an unlocked mutex is a fatal error
UnlockFaults(m) == ~m

\* --------------------------------------------------------- sync.RWMutex
\* rw.RLock(): multiple readers can hold it, none while a writer holds it
RLockReady(w) == ~w

\* rw.Lock(): only one writer allowed, and no reader while it writes
WLockIgnoresReaders(w, r) == ~w
WLockReady(w, r) == ~w /\ r = 0

\* -------------------------------------------------------- sync.WaitGroup
\* Add(delta): the counter after the call
WgAdd(c, delta) == c + delta

\* Add panics when the counter would become negative
WgAddNeverFaults(c, delta) == FALSE
WgAddFaults(c, delta) == c + delta < 0

\* Wait() returns only when the counter is 0
WaitReadyEarly(c) == c <= 1
WaitReadyNever(c) == FALSE
WaitReady(c) == c = 0

\* ------------------------------------------------------------- channels
\* make(chan T, c): an open, empty channel of capacity c (0: unbuffered)
MakeChan(c) == [buf |-> <<>>, cap |-> c, closed |-> FALSE]

\* a send on a closed channel panics
SendNeverFaults(c) == FALSE
SendFaults(c) == c.closed

\* a send on an open channel completes without a receiver while the buffer
\* has room
SendAlwaysReady(c) == TRUE
SendNeverReady(c) == FALSE
SendReady(c) == Len(c.buf) < c.cap

\* an unbuffered send on an open channel completes only by handing the value
\* to a receiver that is waiting in a receive on the channel
HandoffReady(c, receiverWaits) == c.cap = 0 /\ receiverWaits

\* the channel after a completed buffered send of v
ChanSendFront(c, v) == [c EXCEPT !.buf = <<v>> \o @]
ChanSend(c, v) == [c EXCEPT !.buf = Append(@, v)]

\* a receive completes when a value is buffered or the channel is closed
RecvReadyNonEmpty(c) == Len(c.buf) > 0
RecvReady(c) == Len(c.buf) > 0 \/ c.closed

\* what a receive returns: the oldest buffered value, or the zero value and
\* ok = false once the channel is closed and drained
RecvValClosedFirst(c, zero) ==
    IF ~c.closed /\ Len(c.buf) > 0 THEN [val |-> Head(c.buf), ok |-> TRUE]
                                   ELSE [val |-> zero, ok |-> FALSE]
RecvVal(c, zero) ==
    IF Len(c.buf) > 0 THEN [val |-> Head(c.buf), ok |-> TRUE]
                      ELSE [val |-> zero, ok |-> FALSE]

\* the channel after a completed receive
ChanRecvKeep(c) == c
ChanRecv(c) == IF Len(c.buf) > 0 THEN [c EXCEPT !.buf = Tail(@)] ELSE c

\* close of a closed channel panics
CloseNeverFaults(c) == FALSE
CloseFaults(c) == c.closed

\* the channel after close(c)
ChanCloseDrops(c) == [c EXCEPT !.closed = TRUE, !.buf = <<>>]
ChanClose(c) == [c EXCEPT !.closed = TRUE]

\* =================================================== mutex.go / mutex.md
Posts == 1..NPosts

InitMutex ==
    /\ variant \in {"post", "counter"}
    /\ views = 0
    /\ mu = FALSE
    /\ wg = 0
    /\ pcMain = "add"
    /\ i = 0
    /\ pcInc = [g \in Posts |-> "none"]
    /\ tmp = [g \in Posts |-> 0]
    /\ printed = -1
    /\ fault = "none"

\* the program is not running (another program's specification)
IdleMutex ==
    /\ variant = "post"
    /\ views = 0
    /\ mu = FALSE
    /\ wg = 0
    /\ pcMain = "add"
    /\ i = 0
    /\ pcInc = [g \in Posts |-> "none"]
    /\ tmp = [g \in Posts |-> 0]
    /\ printed = -1
    /\ fault = "none"

\* main: for i:=0;i<100;i++ { wg.Add(1) ...
mainAdd ==
    /\ pcMain = "add" /\ fault = "none"
    /\ IF i < NPosts
          THEN /\ wg' = WgAdd(wg, 1)
               /\ pcMain' = "go"
          ELSE /\ pcMain' = "wait"
               /\ wg' = wg
    /\ UNCHANGED <<variant, views, mu, i, pcInc, tmp, printed, fault>>
    /\ UNCHANGED notMutexVars

\* main: ... go myPost.incView(&wg) }
mainGo ==
    /\ pcMain = "go" /\ fault = "none"
    /\ pcInc' = [pcInc EXCEPT ![i + 1] = "lock"]
    /\ i' = i + 1
    /\ pcMain' = "add"
    /\ UNCHANGED <<variant, views, mu, wg, tmp, printed, fault>>
    /\ UNCHANGED notMutexVars

\* main: wg.Wait()
mainWait ==
    /\ pcMain = "wait" /\ fault = "none"
    /\ WaitReady(wg)
    /\ pcMain' = "print"
    /\ UNCHANGED <<variant, views, mu, wg, i, pcInc, tmp, printed, fault>>
    /\ UNCHANGED notMutexVars

\* main: fmt.Println(myPost.views)
mainPrint ==
    /\ pcMain = "print" /\ fault = "none"
    /\ printed' = views
    /\ pcMain' = "done"
    /\ UNCHANGED <<variant, views, mu, wg, i, pcInc, tmp, fault>>
    /\ UNCHANGED notMutexVars

\* incView: p.mu.Lock()
incLockSkipped(g) ==
    /\ pcInc[g] = "lock" /\ fault = "none"
    /\ pcInc' = [pcInc EXCEPT ![g] = "load"]
    /\ UNCHANGED <<variant, views, mu, wg, pcMain, i, tmp, printed, fault>>
    /\ UNCHANGED notMutexVars
incLock(g) ==
    /\ pcInc[g] = "lock" /\ fault = "none"
    /\ LockReady(mu)
    /\ mu' = TRUE
    /\ pcInc' = [pcInc EXCEPT ![g] = "load"]
    /\ UNCHANGED <<variant, views, wg, pcMain, i, tmp, printed, fault>>
    /\ UNCHANGED notMutexVars

\* incView: p.views++ (the load of p.views)
incLoad(g) ==
    /\ pcInc[g] = "load" /\ fault = "none"
    /\ tmp' = [tmp EXCEPT ![g] = views]
    /\ pcInc' = [pcInc EXCEPT ![g] = "store"]
    /\ UNCHANGED <<variant, views, mu, wg, pcMain, i, printed, fault>>
    /\ UNCHANGED notMutexVars

\* incView: p.views++ (the store of the incremented value); afterwards
\* mutex.go runs its deferred function (wg.Done() first), mutex.md's increment
\* calls mu.Unlock() and then its deferred wg.Done()
incStore(g) ==
    /\ pcInc[g] = "store" /\ fault = "none"
    /\ views' = tmp[g] + 1
    /\ pcInc' = [pcInc EXCEPT ![g] = IF variant = "post" THEN "done" ELSE "unlock"]
    /\ UNCHANGED <<variant, mu, wg, pcMain, i, tmp, printed, fault>>
    /\ UNCHANGED notMutexVars

\* wg.Done(): first statement of the deferred function of incView (mutex.go),
\* the deferred call of increment (mutex.md)
incDone(g) ==
    /\ pcInc[g] = "done" /\ fault = "none"
    /\ IF WgAddFaults(wg, -1)
          THEN /\ fault' = "negative WaitGroup counter"
               /\ UNCHANGED <<wg, pcInc>>
          ELSE /\ wg' = WgAdd(wg, -1)
               /\ pcInc' = [pcInc EXCEPT ![g] = IF variant = "post" THEN "unlock" ELSE "exit"]
               /\ fault' = fault
    /\ UNCHANGED <<variant, views, mu, pcMain, i, tmp, printed>>
    /\ UNCHANGED notMutexVars

\* p.mu.Unlock(): second statement of the deferred function of incView
\* (mutex.go), the statement after counter++ in increment (mutex.md)
incUnlock(g) ==
    /\ pcInc[g] = "unlock" /\ fault = "none"
    /\ IF UnlockFaults(mu)
          THEN /\ fault' = "unlock of unlocked mutex"
               /\ UNCHANGED <<mu, pcInc>>
          ELSE /\ mu' = FALSE
               /\ pcInc' = [pcInc EXCEPT ![g] = IF variant = "post" THEN "exit" ELSE "done"]
               /\ fault' = fault
    /\ UNCHANGED <<variant, views, wg, pcMain, i, tmp, printed>>
    /\ UNCHANGED notMutexVars

NextMutex ==
    \/ mainAdd
    \/ mainGo
    \/ mainWait
    \/ mainPrint
    \/ \E g \in Posts : incLock(g)
    \/ \E g \in Posts : incLoad(g)
    \/ \E g \in Posts : incStore(g)
    \/ \E g \in Posts : incDone(g)
    \/ \E g \in Posts : incUnlock(g)

\* the same programs with mu.Lock() and mu.Unlock() removed (mutex.md:
\* "Without the Mutex", "Race Condition Without Mutex"): each increment is an
\* unguarded load followed by a store
incNoLockWaits(g) == incLock(g)
incNoLock(g) ==
    /\ pcInc[g] = "lock" /\ fault = "none"
    /\ pcInc' = [pcInc EXCEPT ![g] = "load"]
    /\ UNCHANGED <<variant, views, mu, wg, pcMain, i, tmp, printed, fault>>
    /\ UNCHANGED notMutexVars

incNoUnlock(g) ==
    /\ pcInc[g] = "unlock" /\ fault = "none"
    /\ pcInc' = [pcInc EXCEPT ![g] = IF variant = "post" THEN "exit" ELSE "done"]
    /\ UNCHANGED <<variant, views, mu, wg, pcMain, i, tmp, printed, fault>>
    /\ UNCHANGED notMutexVars

NextRace ==
    \/ mainAdd
    \/ mainGo
    \/ mainWait
    \/ mainPrint
    \/ \E g \in Posts : incNoLock(g)
    \/ \E g \in Posts : incLoad(g)
    \/ \E g \in Posts : incStore(g)
    \/ \E g \in Posts : incDone(g)
    \/ \E g \in Posts : incNoUnlock(g)

\* ======================================================== goRoutines.go
Tasks == 0..(NTasks - 1)

InitTasks ==
    /\ tWg = 0
    /\ tPcMain = "add"
    /\ tI = 0
    /\ pcTask = [t \in Tasks |-> "none"]
    /\ nDone = 0
    /\ out = <<>>

\* main: for i:=0;i<=10;i++ { wg.Add(1) ...
taskMainAdd ==
    /\ tPcMain = "add" /\ fault = "none"
    /\ IF tI < NTasks
          THEN /\ tWg' = WgAdd(tWg, 1)
               /\ tPcMain' = "go"
          ELSE /\ tPcMain' = "wait"
               /\ tWg' = tWg
    /\ UNCHANGED <<tI, pcTask, nDone, out, fault>>
    /\ UNCHANGED notTaskVars

\* main: ... go task(i,&wg) }
taskMainGo ==
    /\ tPcMain = "go" /\ fault = "none"
    /\ pcTask' = [pcTask EXCEPT ![tI] = "print"]
    /\ tI' = tI + 1
    /\ tPcMain' = "add"
    /\ UNCHANGED <<tWg, nDone, out, fault>>
    /\ UNCHANGED notTaskVars

\* main: wg.Wait()
taskMainWait ==
    /\ tPcMain = "wait" /\ fault = "none"
    /\ WaitReady(tWg)
    /\ tPcMain' = "done"
    /\ UNCHANGED <<tWg, tI, pcTask, nDone, out, fault>>
    /\ UNCHANGED notTaskVars

\* task: fmt.Println("Doing Task:",id)
taskPrint(t) ==
    /\ pcTask[t] = "print" /\ fault = "none"
    /\ out' = Append(out, t)
    /\ pcTask' = [pcTask EXCEPT ![t] = "done"]
    /\ UNCHANGED <<tWg, tPcMain, tI, nDone, fault>>
    /\ UNCHANGED notTaskVars

\* task: defer w.Done()
taskDone(t) ==
    /\ pcTask[t] = "done" /\ fault = "none"
    /\ IF WgAddFaults(tWg, -1)
          THEN /\ fault' = "negative WaitGroup counter"
               /\ UNCHANGED <<tWg, nDone, pcTask>>
          ELSE /\ tWg' = WgAdd(tWg, -1)
               /\ nDone' = nDone + 1
               /\ pcTask' = [pcTask EXCEPT ![t] = "exit"]
               /\ fault' = fault
    /\ UNCHANGED <<tPcMain, tI, out>>
    /\ UNCHANGED notTaskVars

NextTasks ==
    \/ taskMainAdd
    \/ taskMainGo
    \/ taskMainWait
    \/ \E t \in Tasks : taskPrint(t)
    \/ \E t \in Tasks : taskDone(t)

\* ======================= part_007 (range over channel) and emailSender
\* fmt.Sprintf("%d@gmail.com",i): a string is the sequence of its parts
Email(n) == <<n, "@gmail.com">>

\* number of sends of the sender's loop
NSends == IF rProg = "range" THEN NVals ELSE NEmails

\* the value of the send statement for loop variable n
SendVal(n) == IF rProg = "range" THEN n ELSE Email(n)

\* the zero value of the channel's element type (int, string)
Zero == IF rProg = "range" THEN 0 ELSE <<>>

InitRange ==
    /\ rProg \in {"range", "email"}
    /\ \E c \in 0..MaxCap : ch = MakeChan(IF rProg = "range" THEN c ELSE EmailCap)
    /\ done = FALSE
    /\ pcProd = "send"
    /\ pI = IF rProg = "range" THEN 1 ELSE 0
    /\ pcCons = "recv"
    /\ val = Zero
    /\ sent = <<>>
    /\ rcvd = <<>>
    /\ rOut = <<>>

\* the program is not running (another program's specification)
IdleRange ==
    /\ rProg = "range"
    /\ ch = MakeChan(0)
    /\ done = FALSE
    /\ pcProd = "send"
    /\ pI = 1
    /\ pcCons = "recv"
    /\ val = 0
    /\ sent = <<>>
    /\ rcvd = <<>>
    /\ rOut = <<>>

\* the loop condition of the sender: i <= 3 (part_007), i < 10 (driver)
LoopCond == IF rProg = "range" THEN pI <= NVals ELSE pI < NEmails

\* sender: for ... { ch <- i } with room in the buffer; leaves the loop when
\* the condition fails
prodSend ==
    /\ pcProd = "send" /\ fault = "none"
    /\ IF LoopCond
          THEN IF SendFaults(ch)
                  THEN /\ fault' = "send on closed channel"
                       /\ UNCHANGED <<ch, pI, sent, pcProd>>
                  ELSE /\ SendReady(ch)
                       /\ ch' = ChanSend(ch, SendVal(pI))
                       /\ sent' = Append(sent, SendVal(pI))
                       /\ pI' = pI + 1
                       /\ UNCHANGED <<pcProd, fault>>
          ELSE /\ pcProd' = "close"
               /\ UNCHANGED <<ch, pI, sent, fault>>
    /\ UNCHANGED <<rProg, done, pcCons, val, rcvd, rOut>>
    /\ UNCHANGED notRangeVars

\* sender and range loop: ch <- i on the unbuffered channel hands the value
\* to the range loop waiting in its receive
prodHandoff ==
    /\ pcProd = "send" /\ fault = "none"
    /\ LoopCond
    /\ ~SendFaults(ch)
    /\ HandoffReady(ch, pcCons = "recv")
    /\ val' = SendVal(pI)
    /\ sent' = Append(sent, SendVal(pI))
    /\ rcvd' = Append(rcvd, SendVal(pI))
    /\ pI' = pI + 1
    /\ pcCons' = "print"
    /\ UNCHANGED <<rProg, ch, done, pcProd, rOut, fault>>
    /\ UNCHANGED notRangeVars

\* sender: close(ch) (part_007); fmt.Println("done sending.."), close(emailChan)
prodClose ==
    /\ pcProd = "close" /\ fault = "none"
    /\ IF CloseFaults(ch)
          THEN /\ fault' = "close of closed channel"
               /\ UNCHANGED <<ch, pcProd>>
          ELSE /\ ch' = ChanClose(ch)
               /\ pcProd' = IF rProg = "range" THEN "exit" ELSE "waitdone"
               /\ fault' = fault
    /\ UNCHANGED <<rProg, done, pI, pcCons, val, sent, rcvd, rOut>>
    /\ UNCHANGED notRangeVars

\* range loop: for val := range ch receives the next value, or leaves the loop
\* when the channel is closed and drained
consRecv ==
    /\ pcCons = "recv" /\ fault = "none"
    /\ RecvReady(ch)
    /\ IF RecvVal(ch, Zero).ok
          THEN /\ val' = RecvVal(ch, Zero).val
               /\ rcvd' = Append(rcvd, RecvVal(ch, Zero).val)
               /\ pcCons' = "print"
          ELSE /\ pcCons' = IF rProg = "range" THEN "exit" ELSE "senddone"
               /\ UNCHANGED <<val, rcvd>>
    /\ ch' = ChanRecv(ch)
    /\ UNCHANGED <<rProg, done, pcProd, pI, sent, rOut, fault>>
    /\ UNCHANGED notRangeVars

\* range loop body: fmt.Println(val); fmt.Println("Sending email to..",email)
consPrint ==
    /\ pcCons = "print" /\ fault = "none"
    /\ rOut' = Append(rOut, val)
    /\ pcCons' = IF rProg = "range" THEN "recv" ELSE "sleep"
    /\ UNCHANGED <<rProg, ch, done, pcProd, pI, val, sent, rcvd, fault>>
    /\ UNCHANGED notRangeVars

\* emailSender: time.Sleep(time.Second)
consSleep ==
    /\ pcCons = "sleep" /\ fault = "none"
    /\ pcCons' = "recv"
    /\ UNCHANGED <<rProg, ch, done, pcProd, pI, val, sent, rcvd, rOut, fault>>
    /\ UNCHANGED notRangeVars

\* emailSender: defer func() {done <- true}() meets <-done of main (done is
\* unbuffered: the send completes with the receive)
consDone ==
    /\ pcCons = "senddone" /\ fault = "none"
    /\ pcProd = "waitdone"
    /\ done' = TRUE
    /\ pcCons' = "exit"
    /\ pcProd' = "exit"
    /\ UNCHANGED <<rProg, ch, pI, val, sent, rcvd, rOut, fault>>
    /\ UNCHANGED notRangeVars

NextRange ==
    \/ prodSend
    \/ prodHandoff
    \/ prodClose
    \/ consRecv
    \/ consPrint
    \/ consSleep
    \/ consDone

\* the driver with close(emailChan) left out ("closing is important"): main
\* goes on to <-done with emailChan still open
prodNoClose ==
    /\ pcProd = "close" /\ fault = "none"
    /\ rProg = "email"
    /\ pcProd' = "waitdone"
    /\ UNCHANGED <<rProg, ch, done, pI, pcCons, val, sent, rcvd, rOut, fault>>
    /\ UNCHANGED notRangeVars

NextRangeNoClose ==
    \/ prodSend
    \/ prodHandoff
    \/ prodClose
    \/ prodNoClose
    \/ consRecv
    \/ consPrint
    \/ consSleep
    \/ consDone

\* ============================================ channels.md: worker pool
Workers == 1..NWorkers

\* worker: j * 2
ResultPlus(j) == j + 2
Result(j) == j * 2

InitPool ==
    /\ jobs = MakeChan(JobsCap)
    /\ results = MakeChan(ResultsCap)
    /\ pcPool = "spawn"
    /\ pN = 1
    /\ pcW = [w \in Workers |-> "none"]
    /\ wJ = [w \in Workers |-> 0]
    /\ got = <<>>
    /\ produced = 0
    /\ processed = [j \in 1..NJobs |-> 0]

\* main: for w := 1; w <= 3; w++ { go worker(w, jobs, results) }
poolSpawn ==
    /\ pcPool = "spawn" /\ fault = "none"
    /\ IF pN <= NWorkers
          THEN /\ pcW' = [pcW EXCEPT ![pN] = "recv"]
               /\ pN' = pN + 1
               /\ pcPool' = pcPool
          ELSE /\ pcPool' = "send"
               /\ pN' = 1
               /\ pcW' = pcW
    /\ UNCHANGED <<jobs, results, wJ, got, produced, processed, fault>>
    /\ UNCHANGED notPoolVars

\* main: for j := 1; j <= 5; j++ { jobs <- j }
poolSend ==
    /\ pcPool = "send" /\ fault = "none"
    /\ IF pN <= NJobs
          THEN IF SendFaults(jobs)
                  THEN /\ fault' = "send on closed channel"
                       /\ UNCHANGED <<jobs, pN, pcPool>>
                  ELSE /\ SendReady(jobs)
                       /\ jobs' = ChanSend(jobs, pN)
                       /\ pN' = pN + 1
                       /\ UNCHANGED <<pcPool, fault>>
          ELSE /\ pcPool' = "close"
               /\ UNCHANGED <<jobs, pN, fault>>
    /\ UNCHANGED <<results, pcW, wJ, got, produced, processed>>
    /\ UNCHANGED notPoolVars

\* main: close(jobs)
poolClose ==
    /\ pcPool = "close" /\ fault = "none"
    /\ IF CloseFaults(jobs)
          THEN /\ fault' = "close of closed channel"
               /\ UNCHANGED <<jobs, pcPool, pN>>
          ELSE /\ jobs' = ChanClose(jobs)
               /\ pcPool' = "recv"
               /\ pN' = 1
               /\ fault' = fault
    /\ UNCHANGED <<results, pcW, wJ, got, produced, processed>>
    /\ UNCHANGED notPoolVars

\* main: for r := 1; r <= 5; r++ { fmt.Println(<-results) }
poolRecvShort ==
    /\ pcPool = "recv" /\ fault = "none"
    /\ IF pN < NJobs
          THEN /\ RecvReady(results)
               /\ got' = Append(got, RecvVal(results, 0).val)
               /\ results' = ChanRecv(results)
               /\ pN' = pN + 1
               /\ pcPool' = pcPool
          ELSE /\ pcPool' = "done"
               /\ UNCHANGED <<results, got, pN>>
    /\ UNCHANGED <<jobs, pcW, wJ, produced, processed, fault>>
    /\ UNCHANGED notPoolVars
poolRecv ==
    /\ pcPool = "recv" /\ fault = "none"
    /\ IF pN <= NJobs
          THEN /\ RecvReady(results)
               /\ got' = Append(got, RecvVal(results, 0).val)
               /\ results' = ChanRecv(results)
               /\ pN' = pN + 1
               /\ pcPool' = pcPool
          ELSE /\ pcPool' = "done"
               /\ UNCHANGED <<results, got, pN>>
    /\ UNCHANGED <<jobs, pcW, wJ, produced, processed, fault>>
    /\ UNCHANGED notPoolVars

\* worker: for j := range jobs
workerRecv(w) ==
    /\ pcW[w] = "recv" /\ fault = "none"
    /\ RecvReady(jobs)
    /\ IF RecvVal(jobs, 0).ok
          THEN /\ wJ' = [wJ EXCEPT ![w] = RecvVal(jobs, 0).val]
               /\ pcW' = [pcW EXCEPT ![w] = "print"]
          ELSE /\ pcW' = [pcW EXCEPT ![w] = "exit"]
               /\ wJ' = wJ
    /\ jobs' = ChanRecv(jobs)
    /\ UNCHANGED <<results, pcPool, pN, got, produced, processed, fault>>
    /\ UNCHANGED notPoolVars

\* worker: fmt.Println("Worker", id, "processing job", j)
workerPrint(w) ==
    /\ pcW[w] = "print" /\ fault = "none"
    /\ processed' = [processed EXCEPT ![wJ[w]] = @ + 1]
    /\ pcW' = [pcW EXCEPT ![w] = "send"]
    /\ UNCHANGED <<jobs, results, pcPool, pN, wJ, got, produced, fault>>
    /\ UNCHANGED notPoolVars

\* worker: results <- j * 2
workerSend(w) ==
    /\ pcW[w] = "send" /\ fault = "none"
    /\ IF SendFaults(results)
          THEN /\ fault' = "send on closed channel"
               /\ UNCHANGED <<results, produced, pcW>>
          ELSE /\ SendReady(results)
               /\ results' = ChanSend(results, Result(wJ[w]))
               /\ produced' = produced + 1
               /\ pcW' = [pcW EXCEPT ![w] = "recv"]
               /\ fault' = fault
    /\ UNCHANGED <<jobs, pcPool, pN, wJ, got, processed>>
    /\ UNCHANGED notPoolVars

NextPool ==
    \/ poolSpawn
    \/ poolSend
    \/ poolClose
    \/ poolRecv
    \/ \E w \in Workers : workerRecv(w)
    \/ \E w \in Workers : workerPrint(w)
    \/ \E w \in Workers : workerSend(w)

\* the worker pool with a worker that faults while it processes a job: the
\* worker function defers nothing and recovers nothing, so the goroutine ends
\* at the fault without sending on results, and the panic ends the program
workerFault(w) ==
    /\ pcW[w] = "print" /\ fault = "none"
    /\ pcW' = [pcW EXCEPT ![w] = "panicked"]
    /\ fault' = "panic in worker"
    /\ UNCHANGED <<jobs, results, pcPool, pN, wJ, got, produced, processed>>
    /\ UNCHANGED notPoolVars

NextPoolFault ==
    \/ poolSpawn
    \/ poolSend
    \/ poolClose
    \/ poolRecv
    \/ \E w \in Workers : workerRecv(w)
    \/ \E w \in Workers : workerPrint(w)
    \/ \E w \in Workers : workerSend(w)
    \/ \E w \in Workers : workerFault(w)

\* main returns after its last receive from results: the program exits and
\* does not wait for the worker goroutines, which run no further
poolReturn ==
    /\ pcPool = "done" /\ fault = "none"
    /\ pcPool' = "exited"
    /\ UNCHANGED <<jobs, results, pN, pcW, wJ, got, produced, processed, fault>>
    /\ UNCHANGED notPoolVars

\* the process is alive until main has returned
PoolRunning == pcPool # "exited"

liveWorkerRecv(w) == PoolRunning /\ workerRecv(w)

liveWorkerPrint(w) == PoolRunning /\ workerPrint(w)

liveWorkerSend(w) == PoolRunning /\ workerSend(w)

NextPoolExit ==
    \/ poolSpawn
    \/ poolSend
    \/ poolClose
    \/ poolRecv
    \/ poolReturn
    \/ \E w \in Workers : liveWorkerRecv(w)
    \/ \E w \in Workers : liveWorkerPrint(w)
    \/ \E w \in Workers : liveWorkerSend(w)

\* ===================================== channels.md: channel operations
\* Goroutines start sends, receives and closes on one channel in any order;
\* a goroutine whose operation panics recovers and records the panic.
Clients == 1..NClients

SendVals == 1..NSendVals

\* nothing returned yet
NoRes == [op |-> "none", val |-> 0, ok |-> FALSE, fault |-> "none"]

InitChan ==
    /\ \E cap \in 0..MaxCap : hCh = MakeChan(cap)
    /\ hPc = [t \in Clients |-> "idle"]
    /\ hVal = [t \in Clients |-> 0]
    /\ hRes = [t \in Clients |-> NoRes]
    /\ ops = 0
    /\ atClose = <<>>
    /\ afterClose = <<>>

\* the program is not running (another program's specification)
IdleChan ==
    /\ hCh = MakeChan(0)
    /\ hPc = [t \in Clients |-> "idle"]
    /\ hVal = [t \in Clients |-> 0]
    /\ hRes = [t \in Clients |-> NoRes]
    /\ ops = 0
    /\ atClose = <<>>
    /\ afterClose = <<>>

\* a goroutine reaches ch <- v
startSend(t, v) ==
    /\ hPc[t] = "idle" /\ ops < MaxOps
    /\ hPc' = [hPc EXCEPT ![t] = "send"]
    /\ hVal' = [hVal EXCEPT ![t] = v]
    /\ ops' = ops + 1
    /\ UNCHANGED <<hCh, hRes, atClose, afterClose>>
    /\ UNCHANGED notChanVars

\* a goroutine reaches val, ok := <-ch
startRecv(t) ==
    /\ hPc[t] = "idle" /\ ops < MaxOps
    /\ hPc' = [hPc EXCEPT ![t] = "recv"]
    /\ ops' = ops + 1
    /\ UNCHANGED <<hCh, hVal, hRes, atClose, afterClose>>
    /\ UNCHANGED notChanVars

\* a goroutine reaches close(ch)
startClose(t) ==
    /\ hPc[t] = "idle" /\ ops < MaxOps
    /\ hPc' = [hPc EXCEPT ![t] = "close"]
    /\ ops' = ops + 1
    /\ UNCHANGED <<hCh, hVal, hRes, atClose, afterClose>>
    /\ UNCHANGED notChanVars

\* ch <- v: panics on a closed channel, else completes when the buffer has room
chSend(t) ==
    /\ hPc[t] = "send"
    /\ IF SendFaults(hCh)
          THEN /\ hRes' = [hRes EXCEPT ![t] =
                     [op |-> "send", val |-> hVal[t], ok |-> FALSE,
                      fault |-> "send on closed channel"]]
               /\ hCh' = hCh
          ELSE /\ SendReady(hCh)
               /\ hCh' = ChanSend(hCh, hVal[t])
               /\ hRes' = [hRes EXCEPT ![t] =
                     [op |-> "send", val |-> hVal[t], ok |-> TRUE, fault |-> "none"]]
    /\ hPc' = [hPc EXCEPT ![t] = "idle"]
    /\ UNCHANGED <<hVal, ops, atClose, afterClose>>
    /\ UNCHANGED notChanVars

\* ch <- v on the open unbuffered channel meets val, ok := <-ch of a waiting
\* receiver
chHandoff(t, r) ==
    /\ hPc[t] = "send"
    /\ ~SendFaults(hCh)
    /\ HandoffReady(hCh, hPc[r] = "recv")
    /\ hRes' = [hRes EXCEPT
          ![t] = [op |-> "send", val |-> hVal[t], ok |-> TRUE, fault |-> "none"],
          ![r] = [op |-> "recv", val |-> hVal[t], ok |-> TRUE, fault |-> "none"]]
    /\ hPc' = [hPc EXCEPT ![t] = "idle", ![r] = "idle"]
    /\ UNCHANGED <<hCh, hVal, ops, atClose, afterClose>>
    /\ UNCHANGED notChanVars

\* val, ok := <-ch: the oldest buffered value, or (0, false) when the channel
\* is closed and drained
chRecv(t) ==
    /\ hPc[t] = "recv"
    /\ RecvReady(hCh)
    /\ hRes' = [hRes EXCEPT ![t] =
          [op |-> "recv", val |-> RecvVal(hCh, 0).val, ok |-> RecvVal(hCh, 0).ok,
           fault |-> "none"]]
    /\ afterClose' = IF hCh.closed /\ RecvVal(hCh, 0).ok
                        THEN Append(afterClose, RecvVal(hCh, 0).val)
                        ELSE afterClose
    /\ hCh' = ChanRecv(hCh)
    /\ hPc' = [hPc EXCEPT ![t] = "idle"]
    /\ UNCHANGED <<hVal, ops, atClose>>
    /\ UNCHANGED notChanVars

\* close(ch): panics on a closed channel, else closes it
chClose(t) ==
    /\ hPc[t] = "close"
    /\ IF CloseFaults(hCh)
          THEN /\ hRes' = [hRes EXCEPT ![t] =
                     [op |-> "close", val |-> 0, ok |-> FALSE,
                      fault |-> "close of closed channel"]]
               /\ UNCHANGED <<hCh, atClose>>
          ELSE /\ hCh' = ChanClose(hCh)
               /\ atClose' = hCh.buf
               /\ hRes' = [hRes EXCEPT ![t] =
                     [op |-> "close", val |-> 0, ok |-> TRUE, fault |-> "none"]]
    /\ hPc' = [hPc EXCEPT ![t] = "idle"]
    /\ UNCHANGED <<hVal, ops, afterClose>>
    /\ UNCHANGED notChanVars

NextChan ==
    \/ \E t \in Clients, v \in SendVals : startSend(t, v)
    \/ \E t \in Clients : startRecv(t)
    \/ \E t \in Clients : startClose(t)
    \/ \E t \in Clients : chSend(t)
    \/ \E t, r \in Clients : chHandoff(t, r)
    \/ \E t \in Clients : chRecv(t)
    \/ \E t \in Clients : chClose(t)

\* =========================================== hello_world.md: select loop
\* the channels of the select: chanInt := make(chan int),
\* chanStr := make(chan string), both unbuffered
SelChans == {"chanInt", "chanStr"}

\* the number of iterations of the select loop: i<2
SelLoops == 2

InitSelect ==
    /\ hasDefault \in BOOLEAN
    /\ pcSel = "goInt"
    /\ sI = 0
    /\ pcSnd = [k \in SelChans |-> "none"]
    /\ gotInt = <<>>
    /\ gotStr = <<>>
    /\ selOrder = <<>>
    /\ selBoth = <<>>
    /\ nDefault = 0

\* the program is not running (another program's specification)
IdleSelect ==
    /\ hasDefault = FALSE
    /\ pcSel = "goInt"
    /\ sI = 0
    /\ pcSnd = [k \in SelChans |-> "none"]
    /\ gotInt = <<>>
    /\ gotStr = <<>>
    /\ selOrder = <<>>
    /\ selBoth = <<>>
    /\ nDefault = 0

\* a receive case of the select is ready when a sender waits in its send on
\* the unbuffered channel
CaseAlwaysReady(k) == TRUE
CaseNeverReady(k) == FALSE
CaseReady(k) == pcSnd[k] = "send"

\* the select may run any case that is ready
SelectFixedPriority(k) == CaseReady(k) /\ (k = "chanStr" => ~CaseReady("chanInt"))
SelectMayRun(k) == CaseReady(k)

\* the select runs its default branch when no case is ready
DefaultAlways == hasDefault
DefaultMayRun == hasDefault /\ \A k \in SelChans : ~CaseReady(k)

\* main: go func () { chanInt <- 10 }()
selGoInt ==
    /\ pcSel = "goInt"
    /\ pcSnd' = [pcSnd EXCEPT !["chanInt"] = "start"]
    /\ pcSel' = "goStr"
    /\ UNCHANGED <<hasDefault, sI, gotInt, gotStr, selOrder, selBoth, nDefault>>
    /\ UNCHANGED notSelVars

\* main: go func () { chanStr <- "hello" }()
selGoStr ==
    /\ pcSel = "goStr"
    /\ pcSnd' = [pcSnd EXCEPT !["chanStr"] = "start"]
    /\ pcSel' = "loop"
    /\ UNCHANGED <<hasDefault, sI, gotInt, gotStr, selOrder, selBoth, nDefault>>
    /\ UNCHANGED notSelVars

\* sender goroutine: reaches chanInt <- 10 / chanStr <- "hello" and waits for
\* a receiver
sndArrive(k) ==
    /\ pcSnd[k] = "start"
    /\ pcSnd' = [pcSnd EXCEPT ![k] = "send"]
    /\ UNCHANGED <<hasDefault, pcSel, sI, gotInt, gotStr, selOrder, selBoth, nDefault>>
    /\ UNCHANGED notSelVars

\* sender goroutine: returns from the func after its send completed
sndReturn(k) ==
    /\ pcSnd[k] = "sent"
    /\ pcSnd' = [pcSnd EXCEPT ![k] = "exit"]
    /\ UNCHANGED <<hasDefault, pcSel, sI, gotInt, gotStr, selOrder, selBoth, nDefault>>
    /\ UNCHANGED notSelVars

\* main: for i:=0; i<2; i++: the loop condition
selLoop ==
    /\ pcSel = "loop"
    /\ pcSel' = IF sI < SelLoops THEN "select" ELSE "exit"
    /\ UNCHANGED <<hasDefault, sI, pcSnd, gotInt, gotStr, selOrder, selBoth, nDefault>>
    /\ UNCHANGED notSelVars

\* main: case chanIntVal:= <-chanInt, completing the send chanInt <- 10
selRecvInt ==
    /\ pcSel = "select"
    /\ SelectMayRun("chanInt")
    /\ gotInt' = Append(gotInt, 10)
    /\ selOrder' = Append(selOrder, "chanInt")
    /\ selBoth' = Append(selBoth, \A k \in SelChans : CaseReady(k))
    /\ pcSnd' = [pcSnd EXCEPT !["chanInt"] = "sent"]
    /\ pcSel' = "printInt"
    /\ UNCHANGED <<hasDefault, sI, gotStr, nDefault>>
    /\ UNCHANGED notSelVars

\* main: case chanStrVal:= <-chanStr, completing the send chanStr <- "hello"
selRecvStr ==
    /\ pcSel = "select"
    /\ SelectMayRun("chanStr")
    /\ gotStr' = Append(gotStr, "hello")
    /\ selOrder' = Append(selOrder, "chanStr")
    /\ selBoth' = Append(selBoth, \A k \in SelChans : CaseReady(k))
    /\ pcSnd' = [pcSnd EXCEPT !["chanStr"] = "sent"]
    /\ pcSel' = "printStr"
    /\ UNCHANGED <<hasDefault, sI, gotInt, nDefault>>
    /\ UNCHANGED notSelVars

\* main: default: (empty body)
selDefault ==
    /\ pcSel = "select"
    /\ DefaultMayRun
    /\ nDefault' = nDefault + 1
    /\ pcSel' = "inc"
    /\ UNCHANGED <<hasDefault, sI, pcSnd, gotInt, gotStr, selOrder, selBoth>>
    /\ UNCHANGED notSelVars

\* main: fmt.Println("Received DATA from ...") in the case body
selPrint ==
    /\ pcSel \in {"printInt", "printStr"}
    /\ pcSel' = "inc"
    /\ UNCHANGED <<hasDefault, sI, pcSnd, gotInt, gotStr, selOrder, selBoth, nDefault>>
    /\ UNCHANGED notSelVars

\* main: i++
selInc ==
    /\ pcSel = "inc"
    /\ sI' = sI + 1
    /\ pcSel' = "loop"
    /\ UNCHANGED <<hasDefault, pcSnd, gotInt, gotStr, selOrder, selBoth, nDefault>>
    /\ UNCHANGED notSelVars

NextSelect ==
    \/ selGoInt
    \/ selGoStr
    \/ \E k \in SelChans : sndArrive(k)
    \/ \E k \in SelChans : sndReturn(k)
    \/ selLoop
    \/ selRecvInt
    \/ selRecvStr
    \/ selDefault
    \/ selPrint
    \/ selInc

\* ================================ arrays.go notes: the WaitGroup operations
\* goroutines sharing one WaitGroup call Add(n), Done() and Wait() in any
\* order, at most MaxWgOps calls in all
WgClients == 1..NWgClients

NoCall == [delta |-> 0, before |-> 0, fault |-> FALSE]

InitWg ==
    /\ wgCnt = 0
    /\ wgPc = [t \in WgClients |-> "idle"]
    /\ wgOps = 0
    /\ wgLast = NoCall
    /\ wgEntered = {}
    /\ wgRet = [t \in WgClients |-> FALSE]
    /\ wgLate = [t \in WgClients |-> 0]

\* the program is not running (another program's specification)
IdleWg ==
    /\ wgCnt = 0
    /\ wgPc = [t \in WgClients |-> "idle"]
    /\ wgOps = 0
    /\ wgLast = NoCall
    /\ wgEntered = {}
    /\ wgRet = [t \in WgClients |-> FALSE]
    /\ wgLate = [t \in WgClients |-> 0]

\* Add(delta) by goroutine t: panics when the counter would become negative,
\* otherwise stores the new counter
WgCall(t, delta) ==
    /\ wgLast' = [delta |-> delta, before |-> wgCnt, fault |-> WgAddFaults(wgCnt, delta)]
    /\ IF WgAddFaults(wgCnt, delta)
          THEN /\ wgPc' = [wgPc EXCEPT ![t] = "panic"]
               /\ wgCnt' = wgCnt
          ELSE /\ wgPc' = wgPc
               /\ wgCnt' = WgAdd(wgCnt, delta)

\* wg.Add(n)
wgAdd(t, n) ==
    /\ wgPc[t] = "idle" /\ wgOps < MaxWgOps
    /\ WgCall(t, n)
    /\ wgLate' = [wgLate EXCEPT ![t] = IF wgEntered \ {t} # {} THEN @ + n ELSE @]
    /\ wgOps' = wgOps + 1
    /\ UNCHANGED <<wgEntered, wgRet>>
    /\ UNCHANGED notWgVars

\* wg.Done(): decreases the counter by 1
wgDone(t) ==
    /\ wgPc[t] = "idle" /\ wgOps < MaxWgOps
    /\ WgCall(t, -1)
    /\ wgLate' = [wgLate EXCEPT ![t] = IF @ > 0 /\ ~WgAddFaults(wgCnt, -1) THEN @ - 1 ELSE @]
    /\ wgOps' = wgOps + 1
    /\ UNCHANGED <<wgEntered, wgRet>>
    /\ UNCHANGED notWgVars

\* wg.Wait() is entered
wgWaitEnter(t) ==
    /\ wgPc[t] = "idle" /\ wgOps < MaxWgOps
    /\ wgPc' = [wgPc EXCEPT ![t] = "wait"]
    /\ wgEntered' = wgEntered \cup {t}
    /\ wgOps' = wgOps + 1
    /\ UNCHANGED <<wgCnt, wgLast, wgRet, wgLate>>
    /\ UNCHANGED notWgVars

\* wg.Wait() returns
wgWaitReturn(t) ==
    /\ wgPc[t] = "wait"
    /\ WaitReady(wgCnt)
    /\ wgPc' = [wgPc EXCEPT ![t] = "idle"]
    /\ wgRet' = [wgRet EXCEPT ![t] = TRUE]
    /\ UNCHANGED <<wgCnt, wgOps, wgLast, wgEntered, wgLate>>
    /\ UNCHANGED notWgVars

NextWg ==
    \/ \E t \in WgClients, n \in 1..MaxDelta : wgAdd(t, n)
    \/ \E t \in WgClients : wgDone(t)
    \/ \E t \in WgClients : wgWaitEnter(t)
    \/ \E t \in WgClients : wgWaitReturn(t)

\* ===================================== mutex.md: the sync.Mutex operations
\* goroutines sharing one sync.Mutex call Lock() and Unlock() in any order,
\* at most MaxLkOps calls in all
LkClients == 1..NLkClients

\* no goroutine
NoOne == 0

NoUnlock == [seq |-> 0, by |-> NoOne, locked |-> FALSE, holder |-> NoOne,
             fault |-> FALSE, lockedAfter |-> FALSE]

InitLk ==
    /\ lkMu = FALSE
    /\ lkPc = [t \in LkClients |-> "idle"]
    /\ lkHolder = NoOne
    /\ lkOps = 0
    /\ lkLast = NoUnlock

\* a goroutine calls mu.Lock()
lkLockEnter(t) ==
    /\ lkPc[t] = "idle" /\ lkOps < MaxLkOps
    /\ lkPc' = [lkPc EXCEPT ![t] = "lock"]
    /\ lkOps' = lkOps + 1
    /\ UNCHANGED <<lkMu, lkHolder, lkLast>>
    /\ UNCHANGED notLkVars

\* mu.Lock() returns: the mutex was unlocked and is now locked
lkLockReturn(t) ==
    /\ lkPc[t] = "lock"
    /\ LockReady(lkMu)
    /\ lkMu' = TRUE
    /\ lkHolder' = t
    /\ lkPc' = [lkPc EXCEPT ![t] = "idle"]
    /\ UNCHANGED <<lkOps, lkLast>>
    /\ UNCHANGED notLkVars

\* a goroutine calls mu.Unlock(): releases the lock; the mutex keeps no
\* record of the goroutine that locked it
lkUnlock(t) ==
    /\ lkPc[t] = "idle" /\ lkOps < MaxLkOps
    /\ lkOps' = lkOps + 1
    /\ IF UnlockFaults(lkMu)
          THEN /\ lkPc' = [lkPc EXCEPT ![t] = "panic"]
               /\ UNCHANGED <<lkMu, lkHolder>>
          ELSE /\ lkMu' = FALSE
               /\ lkHolder' = NoOne
               /\ lkPc' = lkPc
    /\ lkLast' = [seq |-> lkOps + 1, by |-> t, locked |-> lkMu, holder |-> lkHolder,
                  fault |-> UnlockFaults(lkMu), lockedAfter |-> lkMu']
    /\ UNCHANGED notLkVars

NextLk ==
    \/ \E t \in LkClients : lkLockEnter(t)
    \/ \E t \in LkClients : lkLockReturn(t)
    \/ \E t \in LkClients : lkUnlock(t)

\* ================================== mutex.md: the sync.RWMutex operations
\* goroutines sharing one sync.RWMutex, each reading under RLock()/RUnlock()
\* or writing under Lock()/Unlock(), again and again
RwClients == 1..NRwClients

InitRw ==
    /\ rwW = FALSE
    /\ rwR = 0
    /\ rwPc = [t \in RwClients |-> "idle"]

\* a goroutine calls rw.RLock()
rwRLockEnter(t) ==
    /\ rwPc[t] = "idle"
    /\ rwPc' = [rwPc EXCEPT ![t] = "rlock"]
    /\ UNCHANGED <<rwW, rwR>>
    /\ UNCHANGED notRwVars

\* rw.RLock() returns: one more reader holds the lock
rwRLock(t) ==
    /\ rwPc[t] = "rlock"
    /\ RLockReady(rwW)
    /\ rwR' = rwR + 1
    /\ rwPc' = [rwPc EXCEPT ![t] = "reading"]
    /\ UNCHANGED rwW
    /\ UNCHANGED notRwVars

\* read operation; rw.RUnlock()
rwRUnlock(t) ==
    /\ rwPc[t] = "reading"
    /\ rwR' = rwR - 1
    /\ rwPc' = [rwPc EXCEPT ![t] = "idle"]
    /\ UNCHANGED rwW
    /\ UNCHANGED notRwVars

\* a goroutine calls rw.Lock()
rwLockEnter(t) ==
    /\ rwPc[t] = "idle"
    /\ rwPc' = [rwPc EXCEPT ![t] = "lock"]
    /\ UNCHANGED <<rwW, rwR>>
    /\ UNCHANGED notRwVars

\* rw.Lock() returns: the writer holds the lock
rwLock(t) ==
    /\ rwPc[t] = "lock"
    /\ WLockReady(rwW, rwR)
    /\ rwW' = TRUE
    /\ rwPc' = [rwPc EXCEPT ![t] = "writing"]
    /\ UNCHANGED rwR
    /\ UNCHANGED notRwVars

\* write operation; rw.Unlock()
rwUnlock(t) ==
    /\ rwPc[t] = "writing"
    /\ rwW' = FALSE
    /\ rwPc' = [rwPc EXCEPT ![t] = "idle"]
    /\ UNCHANGED rwR
    /\ UNCHANGED notRwVars

NextRw ==
    \/ \E t \in RwClients : rwRLockEnter(t)
    \/ \E t \in RwClients : rwRLock(t)
    \/ \E t \in RwClients : rwRUnlock(t)
    \/ \E t \in RwClients : rwLockEnter(t)
    \/ \E t \in RwClients : rwLock(t)
    \/ \E t \in RwClients : rwUnlock(t)

\* ============================================ part_005: the GoBank loop
\* Balances and amounts are float64 in the program; here they are integers
\* counting thousandths of a dollar.
\* fmt.Sprintf("%.2f", ...): the number of decimals written to the file
Decimals == 2

\* one cent, in thousandths
Cent == 10 ^ (3 - Decimals)

\* fmt.Sprintf("%.2f", b): b rounded to whole cents
Fmt2(b) == ((b + (Cent \div 2)) \div Cent) * Cent

\* the amounts typed at the prompts, negative and zero among them, in steps
\* that are not whole cents
AmtStep == 4

BankAmts == {k * AmtStep : k \in -1..MaxAmtK}

\* what balance.txt may hold when the program starts: nothing (no file), text
\* that is not a number, or a number of whole cents
NoFile == [kind |-> "none", val |-> 0]

BadFile == [kind |-> "bad", val |-> 0]

NumFile(v) == [kind |-> "num", val |-> v]

StartFiles == {NoFile, BadFile} \cup {NumFile(k * Cent) : k \in -1..MaxStartK}

\* readBalanceFromFile returns 1000.00 together with its error
DefaultBalance == 1000

NoOp == [op |-> "none", amt |-> 0, before |-> 0, fileBefore |-> NoFile]

InitBank ==
    /\ bFile \in StartFiles
    /\ bPc = "start"
    /\ accBalance = 0
    /\ bStart = 0
    /\ bLast = NoOp
    /\ bN = 0

\* the program is not running (another program's specification)
IdleBank ==
    /\ bFile = NoFile
    /\ bPc = "start"
    /\ accBalance = 0
    /\ bStart = 0
    /\ bLast = NoOp
    /\ bN = 0

\* a deposit is applied when the amount is positive
DepositValid(amt) == amt > 0

\* a withdrawal is applied when the amount is positive and covered
WithdrawAny(amt, bal) == amt > 0
WithdrawValid(amt, bal) == amt > 0 /\ amt <= bal

\* main: var accBalance, err = readBalanceFromFile(); panic on an error
bankStart ==
    /\ bPc = "start"
    /\ IF bFile.kind = "num"
          THEN /\ accBalance' = bFile.val
               /\ bPc' = "menu"
          ELSE /\ accBalance' = DefaultBalance * (10 ^ 3)
               /\ bPc' = "panic"
    /\ bStart' = accBalance'
    /\ UNCHANGED <<bFile, bLast, bN>>
    /\ UNCHANGED notBankVars

\* case 1: fmt.Println("Your balance is: $", accBalance)
bankCheck ==
    /\ bPc = "menu" /\ bN < MaxBankOps
    /\ bLast' = [op |-> "check", amt |-> 0, before |-> accBalance, fileBefore |-> bFile]
    /\ bN' = bN + 1
    /\ UNCHANGED <<bFile, bPc, accBalance, bStart>>
    /\ UNCHANGED notBankVars

\* case 2: deposit; the new balance is written to balance.txt with 2 decimals
bankDeposit(amt) ==
    /\ bPc = "menu" /\ bN < MaxBankOps
    /\ bLast' = [op |-> "deposit", amt |-> amt, before |-> accBalance, fileBefore |-> bFile]
    /\ bN' = bN + 1
    /\ IF DepositValid(amt)
          THEN /\ accBalance' = accBalance + amt
               /\ bFile' = NumFile(Fmt2(accBalance + amt))
          ELSE UNCHANGED <<accBalance, bFile>>
    /\ UNCHANGED <<bPc, bStart>>
    /\ UNCHANGED notBankVars

\* case 3: withdraw; nothing is written to balance.txt
bankWithdraw(amt) ==
    /\ bPc = "menu" /\ bN < MaxBankOps
    /\ bLast' = [op |-> "withdraw", amt |-> amt, before |-> accBalance, fileBefore |-> bFile]
    /\ bN' = bN + 1
    /\ IF WithdrawValid(amt, accBalance)
          THEN accBalance' = accBalance - amt
          ELSE accBalance' = accBalance
    /\ UNCHANGED <<bFile, bPc, bStart>>
    /\ UNCHANGED notBankVars

\* default: fmt.Println("Exiting.. Thanks for choosing GoBank"); return
bankExit ==
    /\ bPc = "menu"
    /\ bPc' = "exit"
    /\ bLast' = [op |-> "exit", amt |-> 0, before |-> accBalance, fileBefore |-> bFile]
    /\ UNCHANGED <<bFile, accBalance, bStart, bN>>
    /\ UNCHANGED notBankVars

NextBank ==
    \/ bankStart
    \/ bankCheck
    \/ \E amt \in BankAmts : bankDeposit(amt)
    \/ \E amt \in BankAmts : bankWithdraw(amt)
    \/ bankExit

\* ======================================================= specifications
vars == <<mutexVars, taskVars, rangeVars, poolVars, chanVars, selVars, wgVars, lkVars, rwVars, bankVars>>

InitSpecMutex == InitMutex /\ InitTasks /\ IdleRange /\ InitPool /\ IdleChan /\ IdleSelect /\ IdleWg /\ InitLk /\ InitRw /\ IdleBank

SpecMutex == InitSpecMutex /\ [][NextMutex]_vars

SpecRace == InitSpecMutex /\ [][NextRace]_vars

InitSpecTasks == IdleMutex /\ InitTasks /\ IdleRange /\ InitPool /\ IdleChan /\ IdleSelect /\ IdleWg /\ InitLk /\ InitRw /\ IdleBank

SpecTasks == InitSpecTasks /\ [][NextTasks]_vars

InitSpecRange == IdleMutex /\ InitTasks /\ InitRange /\ InitPool /\ IdleChan /\ IdleSelect /\ IdleWg /\ InitLk /\ InitRw /\ IdleBank

InitSpecPool == IdleMutex /\ InitTasks /\ IdleRange /\ InitPool /\ IdleChan /\ IdleSelect /\ IdleWg /\ InitLk /\ InitRw /\ IdleBank

SpecPool == InitSpecPool /\ [][NextPool]_vars

SpecPoolFault == InitSpecPool /\ [][NextPoolFault]_vars

SpecPoolExit == InitSpecPool /\ [][NextPoolExit]_vars

InitSpecChan == IdleMutex /\ InitTasks /\ IdleRange /\ InitPool /\ InitChan /\ IdleSelect /\ IdleWg /\ InitLk /\ InitRw /\ IdleBank

SpecChan == InitSpecChan /\ [][NextChan]_vars

SpecRange == InitSpecRange /\ [][NextRange]_vars

SpecRangeNoClose == InitSpecRange /\ [][NextRangeNoClose]_vars

\* the scheduler eventually runs a goroutine that stays runnable
SpecRangeFair ==
    /\ InitSpecRange
    /\ [][NextRange]_vars
    /\ WF_vars(consRecv) /\ WF_vars(consPrint) /\ WF_vars(consSleep)
    /\ WF_vars(prodSend) /\ WF_vars(prodHandoff) /\ WF_vars(prodClose)
    /\ WF_vars(consDone)

InitSpecSelect == IdleMutex /\ InitTasks /\ IdleRange /\ InitPool /\ IdleChan /\ InitSelect /\ IdleWg /\ InitLk /\ InitRw /\ IdleBank

SpecSelect == InitSpecSelect /\ [][NextSelect]_vars

\* the scheduler eventually runs a goroutine that stays runnable
SpecSelectFair ==
    /\ InitSpecSelect
    /\ [][NextSelect]_vars
    /\ WF_vars(selGoInt) /\ WF_vars(selGoStr) /\ WF_vars(selLoop)
    /\ WF_vars(selRecvInt) /\ WF_vars(selRecvStr) /\ WF_vars(selDefault)
    /\ WF_vars(selPrint) /\ WF_vars(selInc)
    /\ \A k \in SelChans : WF_vars(sndArrive(k)) /\ WF_vars(sndReturn(k))

InitSpecWg == IdleMutex /\ InitTasks /\ IdleRange /\ InitPool /\ IdleChan /\ IdleSelect /\ InitWg /\ InitLk /\ InitRw /\ IdleBank

SpecWg == InitSpecWg /\ [][NextWg]_vars

InitSpecLk == IdleMutex /\ InitTasks /\ IdleRange /\ InitPool /\ IdleChan /\ IdleSelect /\ IdleWg /\ InitLk /\ InitRw /\ IdleBank

SpecLk == InitSpecLk /\ [][NextLk]_vars

InitSpecRw == IdleMutex /\ InitTasks /\ IdleRange /\ InitPool /\ IdleChan /\ IdleSelect /\ IdleWg /\ InitLk /\ InitRw /\ IdleBank

SpecRw == InitSpecRw /\ [][NextRw]_vars

InitSpecBank == IdleMutex /\ InitTasks /\ IdleRange /\ InitPool /\ IdleChan /\ IdleSelect /\ IdleWg /\ InitLk /\ InitRw /\ InitBank

SpecBank == InitSpecBank /\ [][NextBank]_vars

\* ================================================================ claims
\* the goroutines between the return of p.mu.Lock() and p.mu.Unlock()
Holders ==
    {g \in Posts : \/ pcInc[g] \in {"load", "store", "unlock"}
                   \/ variant = "post" /\ pcInc[g] = "done"}

\* C1: N goroutines each increment the shared counter once between Lock() and
\* Unlock() of the same mutex; the value main reads after wg.Wait() has
\* returned is exactly N, in every interleaving.
C1_FinalCountIsN ==
    /\ pcMain = "print" => views = NPosts
    /\ pcMain = "done" => printed = NPosts

\* C1 witness: main of mutex.go has printed the counter after all goroutines ran
C1_Witness == variant = "post" /\ pcMain = "done" /\ printed = NPosts

\* C2: at most one goroutine is between the return of p.mu.Lock() and the
\* execution of p.mu.Unlock(), in every reachable state.
C2_AtMostOneHolder == Cardinality(Holders) <= 1

\* C2 witness: one goroutine holds p.mu while another one is blocked in Lock()
C2_Witness ==
    \E g, h \in Posts : g \in Holders /\ pcInc[h] = "lock" /\ pcInc[g] = "store"

\* C3: wg.Wait() never returns while the counter is greater than 0: with k
\* Add(1) calls made before Wait is entered, Wait has returned only after the
\* k-th Done().
C3_WaitReturnsAfterLastDone ==
    tPcMain = "done" => /\ tWg = 0
                        /\ nDone = NTasks
                        /\ \A t \in Tasks : pcTask[t] = "exit"

\* C3 witness: Wait has returned, after all the tasks called Done()
C3_Witness == tPcMain = "done" /\ nDone = NTasks /\ Len(out) = NTasks

\* C4: worker pool with 3 workers ranging over jobs: after main has sent jobs
\* 1..N and closed jobs, the values it receives from results are exactly the
\* multiset {2*j : j in 1..N}, and its N-th receive completes only after all N
\* results have been produced.
C4_PoolYieldsEachDoubleOnce ==
    /\ Len(got) + Len(results.buf) = produced
    /\ pcPool = "done" =>
          /\ Len(got) = NJobs
          /\ produced = NJobs
          /\ \A j \in 1..NJobs :
                Cardinality({k \in 1..Len(got) : got[k] = 2 * j}) = 1

\* C4 witness: main has received all N results, not in the order of the jobs
C4_Witness ==
    /\ pcPool = "done" /\ Len(got) = NJobs /\ jobs.closed
    /\ \E k \in 1..(NJobs - 1) : got[k] > got[k + 1]

\* the range loop has been left
LoopLeft == pcCons \in {"senddone", "exit"}

\* the values the sender's loop sends, in order
AllSent == [n \in 1..NSends |-> SendVal(IF rProg = "range" THEN n ELSE n - 1)]

\* C5: single producer, single consumer, one channel (buffered or unbuffered):
\* the sequence received equals the sequence sent; the range loop over ch
\* receives 1, 2, 3 in that order and emailSender receives the e-mails in the
\* order they were sent.
C5_ReceivedOrderIsSentOrder ==
    /\ rcvd \o ch.buf = sent
    /\ LoopLeft => rcvd = AllSent
    /\ rOut = SubSeq(rcvd, 1, Len(rOut))

\* C5 witness: values are waiting in the buffer behind one already received
C5_Witness == Len(ch.buf) >= 2 /\ Len(rcvd) >= 1 /\ rcvd \o ch.buf = sent

\* C6: a `for val := range ch` loop terminates once the producer has closed
\* ch, and only after having received every value sent before the close; it
\* does not end while the channel is open.
C6_RangeEndsAfterCloseAndDrain ==
    /\ [](LoopLeft => ch.closed /\ ch.buf = <<>> /\ rcvd = sent)
    /\ (ch.closed ~> LoopLeft)

\* C6 witness: the loop of part_007 has ended with every value received
C6_Witness ==
    rProg = "range" /\ pcCons = "exit" /\ ch.closed /\ Len(rcvd) = NVals

\* C7: after close(), receives first deliver, in FIFO order, every value that
\* was buffered before the close; once the channel is closed and drained,
\* every pending and every later receive returns immediately with
\* (zero value, open = false) and never blocks.
C7_ClosedChannelDrainsThenReportsClosed ==
    /\ [](hCh.closed => afterClose \o hCh.buf = atClose)
    /\ [](\A t \in Clients :
            hPc[t] = "recv" /\ hCh.closed /\ hCh.buf = <<>> => ENABLED chRecv(t))
    /\ [][\A t \in Clients :
            hPc[t] = "recv" /\ hCh.closed /\ hCh.buf = <<>> /\ hPc'[t] = "idle"
               => /\ hRes'[t] = [op |-> "recv", val |-> 0, ok |-> FALSE, fault |-> "none"]
                  /\ hCh' = hCh]_vars

\* C7 witness: the values buffered at the close have been received and a
\* further receive has reported the channel closed
C7_Witness ==
    /\ hCh.closed /\ Len(atClose) >= 1 /\ afterClose = atClose
    /\ \E t \in Clients : hRes[t].op = "recv" /\ ~hRes[t].ok

\* C8: every send on a channel that is already closed faults (panic), on every
\* such call, and adds nothing to the channel's buffer.
C8_SendOnClosedFaults ==
    /\ [](\A t \in Clients : hPc[t] = "send" /\ hCh.closed => ENABLED chSend(t))
    /\ [][\A t \in Clients :
            hPc[t] = "send" /\ hCh.closed /\ hPc'[t] = "idle"
               => /\ hRes'[t].fault = "send on closed channel"
                  /\ hCh' = hCh]_vars

\* C8 witness: a send has panicked on the closed channel that still buffers a
\* value
C8_Witness ==
    /\ hCh.closed /\ Len(hCh.buf) >= 1
    /\ \E t \in Clients : hRes[t].fault = "send on closed channel"

\* C9: the closed flag of a channel only ever changes from false to true: a
\* second close() faults and leaves the channel closed with its buffered
\* values unchanged.
C9_CloseIsOneShot ==
    [][/\ hCh.closed => hCh'.closed
       /\ \A t \in Clients :
             hPc[t] = "close" /\ hCh.closed /\ hPc'[t] = "idle"
                => /\ hRes'[t].fault = "close of closed channel"
                   /\ hCh' = hCh]_vars

\* C9 witness: a second close has panicked on the channel, which still buffers
\* a value
C9_Witness ==
    /\ hCh.closed /\ Len(hCh.buf) >= 1
    /\ \E t \in Clients : hRes[t].fault = "close of closed channel"

\* C10: a channel of capacity C never holds more than C buffered values; a
\* send when C values are buffered (or any send on an unbuffered channel) with
\* no receiver ready does not complete until a receiver takes a value.
C10_CapacityBoundsBuffer ==
    /\ [](Len(hCh.buf) <= hCh.cap)
    /\ [][\A t \in Clients :
            hPc[t] = "send" /\ ~hCh.closed /\ Len(hCh.buf) = hCh.cap /\ hPc'[t] = "idle"
               => \E r \in Clients \ {t} :
                     /\ hPc[r] = "recv" /\ hPc'[r] = "idle"
                     /\ hRes'[r] = [op |-> "recv", val |-> hVal[t], ok |-> TRUE,
                                    fault |-> "none"]]_vars

\* C10 witness: a sender waits on the open channel whose buffer is full
C10_Witness ==
    /\ ~hCh.closed /\ hCh.cap >= 1 /\ Len(hCh.buf) = hCh.cap
    /\ \E t \in Clients : hPc[t] = "send"


\* ---- C11: a select without a default branch blocks while none of its
\* channel operations is ready and then performs exactly one of them: in the
\* select loop every iteration completes exactly one receive, and after the
\* loop main has received 10 from chanInt exactly once and "hello" from
\* chanStr exactly once
SelectStep == selRecvInt \/ selRecvStr \/ selDefault

C11_SelectBlocksThenRunsOneCase ==
    ~hasDefault =>
        /\ (pcSel = "select" /\ (\A k \in SelChans : ~CaseReady(k)))
               => ~ENABLED SelectStep
        /\ Len(selOrder) = sI + (IF pcSel \in {"printInt", "printStr", "inc"} THEN 1 ELSE 0)
        /\ Len(gotInt) + Len(gotStr) = Len(selOrder)
        /\ pcSel = "exit" => (gotInt = <<10>> /\ gotStr = <<"hello">>)

C11_Witness ==
    /\ ~hasDefault /\ pcSel = "exit" /\ sI = SelLoops
    /\ gotInt = <<10>> /\ gotStr = <<"hello">>

C13_SelectWithDefaultNeverBlocks ==
    (hasDefault /\ pcSel = "select") =>
        /\ ENABLED SelectStep
        /\ (\A k \in SelChans : ~CaseReady(k))
               => (ENABLED selDefault /\ ~ENABLED selRecvInt /\ ~ENABLED selRecvStr)
        /\ (\E k \in SelChans : CaseReady(k))
               => (~ENABLED selDefault /\ ENABLED (selRecvInt \/ selRecvStr))

C13_Witness ==
    /\ hasDefault /\ pcSel = "exit"
    /\ nDefault = 1 /\ Len(selOrder) = 1


\* ---- C14: the WaitGroup counter is never negative: an Add(n) or Done() that
\* would make it negative panics and leaves the counter as it was, any other
\* call stores the sum
C14_CounterNeverNegative ==
    /\ wgCnt >= 0
    /\ wgLast.fault <=> (wgLast.before + wgLast.delta < 0)
    /\ wgCnt = IF wgLast.fault THEN wgLast.before ELSE wgLast.before + wgLast.delta

\* a Done() on the zero counter has panicked
C14_Witness ==
    /\ wgLast = [delta |-> -1, before |-> 0, fault |-> TRUE]
    /\ wgCnt = 0
    /\ \E t \in WgClients : wgPc[t] = "panic"

\* ---- C15: a Wait() that is entered before an Add() it is meant to observe
\* can return at once on the zero counter, so there is a run in which Wait()
\* has returned while the goroutine that called Add() afterwards has not yet
\* called Done()
C15_WaitCanReturnBeforeLateAdd ==
    \A t \in WgClients :
        (wgPc[t] = "wait" /\ wgCnt = 0) => ENABLED wgWaitReturn(t)

\* w's Wait() has returned; g called Add() after w entered Wait() and has not
\* called Done()
C15_Witness ==
    \E w, g \in WgClients :
        /\ w # g
        /\ wgRet[w] /\ wgPc[w] = "idle" /\ wgEntered = {w}
        /\ wgLate[g] > 0 /\ wgCnt > 0


\* ---- C16: the mutex is not reentrant: the Lock() of a goroutine that
\* already holds the mutex does not return while it holds it, and it keeps
\* holding it unless another goroutine's Unlock() releases the mutex; with no
\* such Unlock() it blocks forever
C16_SecondLockBlocks ==
    [][\A t \in LkClients :
          (lkPc[t] = "lock" /\ lkHolder = t) =>
              /\ lkPc'[t] = "lock"
              /\ lkHolder' # t => (lkLast'.seq # lkLast.seq /\ lkLast'.by # t)]_vars

\* a goroutine is in Lock() on the mutex it holds
C16_Witness ==
    \E t \in LkClients :
        /\ lkPc[t] = "lock" /\ lkHolder = t /\ lkMu
        /\ \A u \in LkClients \ {t} : lkPc[u] = "idle"

RwReaders == {t \in RwClients : rwPc[t] = "reading"}

RwWriters == {t \in RwClients : rwPc[t] = "writing"}

C18_WriterExcludesAll ==
    /\ rwR = Cardinality(RwReaders)
    /\ rwW <=> RwWriters # {}
    /\ \/ RwWriters = {}
       \/ Cardinality(RwWriters) = 1 /\ RwReaders = {}

\* five goroutines hold RLock() at the same time
C18_Witness ==
    /\ Cardinality(RwReaders) >= 5
    /\ rwR >= 5 /\ ~rwW


\* ---- C19: accesses of the shared field post.views and p.mu.
\* the goroutines that read or write post.views in the step; main is MainG
MainG == 0

Accessors ==
    {g \in Posts : incLoad(g) \/ incStore(g)} \cup (IF mainPrint THEN {MainG} ELSE {})

\* C19 as stated: every read and every write of post.views, main's read for
\* printing as well as the increments of incView, is performed while the
\* accessing goroutine holds p.mu
C19_EveryAccessUnderMu ==
    [][Accessors # {} => (mu /\ Accessors \subseteq Holders)]_vars

\* C19 as the code has it: the load and the store of p.views++ in incView are
\* performed by the one goroutine holding p.mu; main reads myPost.views without
\* holding p.mu, but only after wg.Wait() has returned, when every goroutine
\* has stored its increment and called Done()
C19_IncViewUnderMuMainAfterWait ==
    [][/\ \A g \in Posts :
             (incLoad(g) \/ incStore(g)) => (mu /\ Holders = {g})
       /\ mainPrint =>
             /\ MainG \notin Holders
             /\ wg = 0
             /\ \A g \in Posts : pcInc[g] \notin {"none", "lock", "load", "store"}
             /\ printed' = NPosts]_vars

\* main of mutex.go has read myPost.views while a goroutine still held p.mu
C19_Witness ==
    /\ variant = "post" /\ pcMain = "done" /\ printed = NPosts
    /\ \E g \in Posts : pcInc[g] = "unlock" /\ mu


\* ---- C20 as stated: once the coordinator has closed jobs, all workers have
\* finished and the coordinator is done, it has closed the results channel
C20_CoordinatorClosesResults ==
    (pcPool = "done" /\ jobs.closed /\ \A w \in Workers : pcW[w] = "exit")
        => results.closed

\* C20 as the code has it: the coordinator never closes results; it ends its
\* consumption by count, leaving its receive loop after exactly N receives
C20_ResultsStaysOpenLoopIsCounted ==
    /\ ~results.closed
    /\ pcPool = "recv" => Len(got) = pN - 1
    /\ pcPool = "done" => (Len(got) = NJobs /\ pN = NJobs + 1 /\ jobs.closed)

\* the coordinator is done and every worker has left its range loop, with
\* results still open
C20_Witness ==
    /\ pcPool = "done" /\ jobs.closed /\ ~results.closed
    /\ \A w \in Workers : pcW[w] = "exit"
    /\ Len(got) = NJobs /\ results.buf = <<>>


\* the result of job j has been sent on results
Reported(j) ==
    \/ \E k \in 1..Len(got) : got[k] = Result(j)
    \/ \E k \in 1..Len(results.buf) : results.buf[k] = Result(j)

C22_UnguardedIncrementsOverlap ==
    /\ \A g \in Posts : pcInc[g] = "lock" => ENABLED incNoLock(g)
    /\ pcMain = "done" => printed \in 1..NPosts

\* main has read a count less than N
C22_Witness ==
    /\ pcMain = "done" /\ printed < NPosts
    /\ \A g \in Posts : pcInc[g] = "exit"


\* ---- C23: while a registration is outstanding (the counter is above 0) and
\* no Done() is called, the counter stays above 0 and every goroutine in
\* Wait() stays in Wait(): if the missing Done() never comes, Wait() blocks
\* forever
C23_WaitBlocksWithoutDone ==
    [][(wgCnt > 0 /\ ~(\E t \in WgClients : wgDone(t))) =>
          /\ wgCnt' > 0
          /\ \A t \in WgClients : wgPc[t] = "wait" => wgPc'[t] = "wait"]_vars

\* a goroutine is in Wait() with one registration outstanding and no call left
\* that could be the missing Done()
C23_Witness ==
    /\ wgCnt = 1 /\ wgOps = MaxWgOps
    /\ \E t \in WgClients : wgPc[t] = "wait"
    /\ ~ENABLED NextWg


\* ---- C24: every successful balance mutation, deposit and withdrawal alike,
\* is written to balance.txt: at the menu the stored balance is the balance in
\* memory (as written with 2 decimals)
C24_FileHoldsBalance ==
    bPc \in {"menu", "exit"} => bFile = NumFile(Fmt2(accBalance))

\* a request that the program rejects
BankRejected ==
    \/ bLast.op = "deposit" /\ bLast.amt <= 0
    \/ bLast.op = "withdraw" /\ (bLast.amt <= 0 \/ bLast.amt > bLast.before)

\* ---- C30: a deposit or withdrawal with amount <= 0, and a withdrawal with
\* an amount above the balance, leave the balance and the file unchanged; a
\* balance that changed was changed by a valid request, by its amount; started
\* from a non-negative balance, the balance is never negative
C30_OnlyValidRequestsChangeBalance ==
    /\ BankRejected => (accBalance = bLast.before /\ bFile = bLast.fileBefore)
    /\ bLast.op = "deposit" /\ ~BankRejected => accBalance = bLast.before + bLast.amt
    /\ bLast.op = "withdraw" /\ ~BankRejected => accBalance = bLast.before - bLast.amt
    /\ bLast.op \in {"check", "exit"} => accBalance = bLast.before
    /\ bStart >= 0 => accBalance >= 0

\* a withdrawal above the balance has been rejected after a deposit was applied
C30_Witness ==
    /\ bLast.op = "withdraw" /\ bLast.amt > bLast.before
    /\ bLast.before > bStart /\ bStart >= 0
    /\ accBalance = bLast.before


\* main's wg.Wait() has returned
WaitReturned == pcMain \in {"print", "done"}

\* ---- C25 as stated: in post.incView the mutex is released before the
\* completion signal, so whenever main's wg.Wait() has returned no goroutine
\* holds p.mu
C25_MutexFreeAfterWait ==
    WaitReturned => (~mu /\ Holders = {})

\* C25 as the code has it: the deferred function of post.incView calls
\* wg.Done() before p.mu.Unlock(), so when wg.Wait() has returned every
\* goroutine has stored its increment and called Done(), but one of them may
\* still hold p.mu; in the increment of mutex.md, which unlocks before its
\* deferred Done(), the mutex is free by then
C25_DoneBeforeUnlockInIncView ==
    /\ (variant = "post" /\ WaitReturned) =>
          /\ \A g \in Posts : pcInc[g] \in {"unlock", "exit"}
          /\ views = NPosts
          /\ Holders = {g \in Posts : pcInc[g] = "unlock"}
          /\ mu <=> Holders # {}
    /\ (variant = "counter" /\ WaitReturned) =>
          /\ \A g \in Posts : pcInc[g] = "exit"
          /\ ~mu /\ Holders = {}
    /\ variant = "post" => \A g \in Posts : pcInc[g] = "unlock" => wg < NPosts

\* wg.Wait() has returned in mutex.go and main is about to read myPost.views
\* while a goroutine still holds p.mu
C25_Witness ==
    /\ variant = "post" /\ pcMain = "print" /\ mu
    /\ \E g \in Posts : pcInc[g] = "unlock"


\* the workers that have taken job j off the jobs channel and not yet sent
\* its result
HoldersOfJob(j) == {w \in Workers : pcW[w] \in {"print", "send"} /\ wJ[w] = j}

\* job j is still buffered in the jobs channel
Queued(j) == \E n \in 1..Len(jobs.buf) : jobs.buf[n] = j

\* how many workers have received job j so far
TimesReceived(j) ==
    processed[j] + Cardinality({w \in Workers : pcW[w] = "print" /\ wJ[w] = j})

\* ---- C26: in the worker pool every job sent on jobs is received by
\* exactly one of the workers: no job is received or processed twice, a job
\* that was sent is either still buffered or was received once, and once all
\* workers have left their range loop every job has been processed
C26_EachJobProcessedOnce ==
    /\ \A j \in 1..NJobs :
          /\ processed[j] <= 1
          /\ TimesReceived(j) <= 1
          /\ Cardinality(HoldersOfJob(j)) <= 1
          /\ (pcPool = "send" /\ j < pN) \/ pcPool \in {"close", "recv", "done"}
                => (Queued(j) <=> TimesReceived(j) = 0)
    /\ (\A w \in Workers : pcW[w] = "exit") =>
          \A j \in 1..NJobs : processed[j] = 1

\* all workers have left their range loop, and every worker processed a job
C26_Witness ==
    /\ \A w \in Workers : pcW[w] = "exit"
    /\ \A j \in 1..NJobs : processed[j] = 1
    /\ produced = NJobs


\* how far main has come: its loops in program order, and the position in
\* the current loop
PhaseNo ==
    CASE pcPool = "spawn" -> 0
      [] pcPool = "send" -> 1
      [] pcPool = "close" -> 2
      [] pcPool = "recv" -> 3
      [] pcPool = "done" -> 4
      [] pcPool = "exited" -> 5

\* the steps taken so far by main and by the workers
PoolMeasure ==
    PhaseNo * (NJobs + NWorkers + 2) + pN
    + Cardinality({w \in Workers : pcW[w] = "print"})
    + 2 * Cardinality({j \in 1..NJobs : processed[j] > 0})
    + produced
    + Cardinality({w \in Workers : pcW[w] = "exit"})

\* main has received its last result
PoolFinished == pcPool \in {"done", "exited"}

\* ---- C27 as stated: the worker-pool program never deadlocks, and every
\* worker leaves its range loop: when the program has ended no worker is
\* still inside the loop
C27_EveryWorkerLeavesLoop ==
    /\ PoolRunning => ENABLED NextPoolExit
    /\ pcPool = "exited" => \A w \in Workers : pcW[w] = "exit"

\* C27 as the code has it: while main has not returned some goroutine can
\* always take a step and every step is progress, so main finishes sending,
\* closes jobs and receives all NJobs results; by then every result was sent,
\* jobs is closed and drained and no worker is blocked on a send to results.
\* main returns without waiting for the workers, so a worker that has not
\* yet seen jobs closed is still in its range loop when the program ends (it
\* would leave the loop at its next step)
C27_PoolFinishesWithoutWaitingForWorkers ==
    /\ [](PoolRunning => ENABLED NextPoolExit)
    /\ [][PoolMeasure' > PoolMeasure]_vars
    /\ [](PoolFinished =>
            /\ Len(got) = NJobs /\ produced = NJobs
            /\ jobs.closed /\ jobs.buf = <<>> /\ results.buf = <<>>
            /\ \A w \in Workers : pcW[w] \in {"recv", "exit"}
            /\ \A w \in Workers :
                  (pcW[w] = "recv" /\ PoolRunning) => ENABLED liveWorkerRecv(w))
    /\ [](\A w \in Workers :
            (pcW[w] = "send" /\ ~SendReady(results)) =>
                pcPool \in {"send", "close", "recv"})

\* the program has ended with all results received while a worker is still
\* inside its range loop
C27_Witness ==
    /\ pcPool = "exited" /\ Len(got) = NJobs
    /\ \E w \in Workers : pcW[w] = "recv"


\* emailSender has left its range loop
SenderLeftLoop == pcCons \in {"senddone", "exit"}

\* main waits in <-done with emailChan open and empty, emailSender waits in
\* its range loop
StuckWithoutClose ==
    /\ pcProd = "waitdone" /\ ~ch.closed /\ ch.buf = <<>>
    /\ pcCons = "recv"

\* ---- C28: emailSender sends on done exactly once, and only after emailChan
\* has been closed and every value sent on it has been received; while
\* emailChan is not closed done is not signalled, and when the driver goes on
\* to <-done without closing, both goroutines stay blocked for ever
C28_DoneOnceAfterCloseAndDrain ==
    /\ [](rProg = "email" =>
            /\ ~ch.closed => (~done /\ ~SenderLeftLoop)
            /\ SenderLeftLoop =>
                  (ch.closed /\ ch.buf = <<>> /\ rcvd = sent /\ rOut = sent)
            /\ done <=> pcCons = "exit"
            /\ (fault = "none" /\ ~ENABLED NextRangeNoClose) =>
                  (done <=> ch.closed)
            /\ StuckWithoutClose => ~ENABLED NextRangeNoClose)
    /\ [][(rProg = "email" /\ done' # done) =>
             (~done /\ pcCons = "senddone" /\ pcCons' = "exit")]_vars

\* done was signalled after the close, with every email received
C28_Witness ==
    /\ rProg = "email" /\ done /\ ch.closed
    /\ Len(rcvd) = NEmails /\ rcvd = sent

\* ---- C29: the select program of hello_world.md terminates under fair
\* scheduling: main leaves the loop after exactly two select iterations, both
\* senders have completed their send by then, and no goroutine is left
\* blocked in a send or in the select
C29_SelectProgramTerminates ==
    /\ []((~hasDefault /\ pcSel = "exit") =>
            /\ sI = SelLoops /\ Len(selOrder) = SelLoops
            /\ Len(gotInt) = 1 /\ Len(gotStr) = 1
            /\ \A k \in SelChans : pcSnd[k] \in {"sent", "exit"})
    /\ <>(pcSel = "exit")
    /\ <>[](hasDefault \/ \A k \in SelChans : pcSnd[k] \in {"sent", "exit"})

\* main has left the loop after two iterations, one for each channel, and
\* both sends are complete
C29_Witness ==
    /\ ~hasDefault /\ pcSel = "exit" /\ sI = SelLoops
    /\ Len(gotInt) = 1 /\ Len(gotStr) = 1
    /\ \A k \in SelChans : pcSnd[k] \in {"sent", "exit"}

================================================================
